---------------------------- MODULE Spec2Model ----------------------------
(***************************************************************************)
(* A model of src/text_analysis.py: the MultilingualSentimentAnalyzer, its *)
(* lexicon tables, the emoji normaliser, the lexical (Tagalog) scorer, the *)
(* blending policy and the language dispatch.                              *)
(*                                                                         *)
(* Conventions.                                                            *)
(*  - A Python str is a TLA+ string; positions are 0-based as in Python    *)
(*    (the character at Python index i is SubSeq(s, i+1, i+1)).            *)
(*  - A Python float is an integer number of thousandths (1.0 is 1000,     *)
(*    0.15 is 150); the arithmetic is exact decimal arithmetic.  Python's  *)
(*    binary floats differ from it only in the last digit round() gives a  *)
(*    value that lies exactly between two hundredths (0.675).              *)
(*  - A pictograph cannot be written in a TLA+ string.  The fourteen       *)
(*    pictographs of the emoticon tables are written as the characters     *)
(*    of PictographStandIns, and "~" stands for a pictograph of the        *)
(*    Unicode ranges that is in neither emoticon table (e.g. U+1F63A).     *)
(*    None of these characters is used with its ASCII meaning.             *)
(*  - An operator that models a Python function which can raise returns a  *)
(*    record whose field raised is TRUE in that case.                      *)
(***************************************************************************)
EXTENDS Integers, Sequences, FiniteSets, TLC

-----------------------------------------------------------------------------
(* Characters and the str methods the program uses.                        *)

\* F applied to the value of v.  Every loop below hands its next state on
\* through Bind, so that the state is a value and not a pending computation.
Bind(v, F(_)) == CHOOSE r \in {F(y) : y \in {v}} : TRUE

Char(s, i) == SubSeq(s, i, i)

CharsOf(s) == {Char(s, i) : i \in 1..Len(s)}

LowerLetters == CharsOf("abcdefghijklmnopqrstuvwxyz")
UpperLetters == CharsOf("ABCDEFGHIJKLMNOPQRSTUVWXYZ")
Digits == CharsOf("0123456789")

\* \w of Python's re for the characters of the model
WordChars == LowerLetters \cup UpperLetters \cup Digits \cup {"_"}

\* what str.strip() and str.split() treat as white space
Whitespace == {" ", "\t", "\n", "\r"}

\* stand-ins for the pictographs of positive_emoticons and negative_emoticons
PictographStandIns == CharsOf("@#$%^&*") \cup CharsOf("<>{}[]|")

\* the characters emoji_pattern removes
EmojiPatternChars == PictographStandIns \cup {"~"}

UpperString == "ABCDEFGHIJKLMNOPQRSTUVWXYZ"
LowerString == "abcdefghijklmnopqrstuvwxyz"

LowerChar(c) ==
    IF c \in UpperLetters
    THEN LET i == CHOOSE k \in 1..26 : Char(UpperString, k) = c
         IN  Char(LowerString, i)
    ELSE c

RECURSIVE Lower(_)
Lower(s) == IF s = "" THEN "" ELSE LowerChar(Char(s, 1)) \o Lower(Tail(s))

\* Python's  sub in s
Contains(s, sub) ==
    \E i \in 1..(Len(s) - Len(sub) + 1) : SubSeq(s, i, i + Len(sub) - 1) = sub

StartsWith(s, p) == Len(p) <= Len(s) /\ SubSeq(s, 1, Len(p)) = p
EndsWith(s, p) == Len(p) <= Len(s) /\ SubSeq(s, Len(s) - Len(p) + 1, Len(s)) = p

\* s[n:]  and  s[:-n]
DropFirst(s, n) == SubSeq(s, n + 1, Len(s))
DropLast(s, n) == SubSeq(s, 1, Len(s) - n)

\* str.replace(old, new): leftmost non-overlapping occurrences (old non-empty)
RECURSIVE Replace(_, _, _)
Replace(s, old, new) ==
    IF Len(s) < Len(old) THEN s
    ELSE IF StartsWith(s, old)
         THEN new \o Replace(DropFirst(s, Len(old)), old, new)
         ELSE Char(s, 1) \o Replace(Tail(s), old, new)

RECURSIVE LStrip(_)
LStrip(s) == IF s # "" /\ Char(s, 1) \in Whitespace THEN LStrip(Tail(s)) ELSE s

RECURSIVE RStrip(_)
RStrip(s) ==
    IF s # "" /\ Char(s, Len(s)) \in Whitespace THEN RStrip(DropLast(s, 1)) ELSE s

\* str.strip()
Strip(s) == LStrip(RStrip(s))

\* str.split(sep) for a one-character sep: the pieces, empty ones included
RECURSIVE SplitOn(_, _, _, _)
SplitOn(s, sep, cur, acc) ==
    IF s = "" THEN Append(acc, cur)
    ELSE IF Char(s, 1) = sep
         THEN SplitOn(Tail(s), sep, "", Append(acc, cur))
         ELSE SplitOn(Tail(s), sep, cur \o Char(s, 1), acc)

\* the maximal runs of characters of cls in s, left to right, as
\* [start, end) spans in Python indices; what re.finditer(r"[cls]+", s) yields
RunEnd(s, cls, i) ==
    CHOOSE j \in i..Len(s) :
        /\ \A k \in i..j : Char(s, k) \in cls
        /\ (j = Len(s) \/ Char(s, j + 1) \notin cls)

RECURSIVE Runs(_, _, _, _)
Runs(s, cls, i, acc) ==
    IF i > Len(s) THEN acc
    ELSE IF Char(s, i) \notin cls
    THEN Bind(i + 1, LAMBDA next : Runs(s, cls, next, acc))
    ELSE Bind(RunEnd(s, cls, i), LAMBDA j :
         Bind(Append(acc, [start |-> i - 1, end |-> j, word |-> SubSeq(s, i, j)]),
              LAMBDA found : Bind(j + 1, LAMBDA next : Runs(s, cls, next, found))))

\* [m.group() for m in re.finditer(...)]
WordsOf(runs) == [k \in 1..Len(runs) |-> runs[k].word]

\* re.findall(r"\w+", s)
FindAllWords(s) ==
    Bind(s, LAMBDA str : Bind(Runs(str, WordChars, 1, <<>>), LAMBDA runs : WordsOf(runs)))

\* re.finditer(r"[\w']+", s)
WordMatches(s) == Bind(s, LAMBDA str : Runs(str, WordChars \cup {"'"}, 1, <<>>))

\* the characters of the model that are not white space
NonSpaceChars ==
    WordChars \cup EmojiPatternChars \cup CharsOf("':-().,!?")

\* str.split() with no argument
SplitWhitespace(s) ==
    Bind(s, LAMBDA str : Bind(Runs(str, NonSpaceChars, 1, <<>>), LAMBDA runs : WordsOf(runs)))

\* x in list
InList(x, list) == x \in {list[k] : k \in 1..Len(list)}

SeqToSet(list) == {list[k] : k \in 1..Len(list)}

Max(a, b) == IF a >= b THEN a ELSE b
Min(a, b) == IF a <= b THEN a ELSE b
Abs(a) == IF a < 0 THEN -a ELSE a

-----------------------------------------------------------------------------
(* The tables __init__ builds (lines 30-124); weights in thousandths.      *)

DefaultTagalogPositive ==
    [w \in {"maganda", "ganda", "mabuti", "buti", "masaya", "saya",
             "nakakatuwa", "tuwa", "galing", "magaling", "bilib",
             "husay", "mahusay", "astig", "sulit", "panalo", "maayos",
             "ayos", "linis", "malinis", "effective", "efficient",
             "successful", "tagumpay", "productive", "organized",
             "smooth", "professional", "natuto", "natutunan",
             "nakatulong", "helpful", "satisfied", "fun", "interesting",
             "educational", "useful", "motivating", "solid", "swabe",
             "goods", "nice", "yes", "oo", "salamat", "grateful",
             "appreciate", "appreciated", "thankful"} |-> 1000] @@
    [w \in {"oks", "sige"} |-> 500]

DefaultTagalogNegative ==
    [w \in {"masama", "sama", "pangit", "panget", "nakakaasar", "asar",
             "nakakainis", "inis", "galit", "ayaw", "badtrip",
             "nakakagalit", "boring", "nakakaantok", "sayang",
             "disappointed", "disappointing", "nakakadismaya",
             "dismaya", "dismayado", "nabigo", "failed", "poor",
             "frustrated", "frustrating", "nakakafrustrate", "bad",
             "disorganized", "chaotic", "unprofessional", "reklamo",
             "lungkot", "nakakalungkot"} |-> -1000] @@
    [w \in {"problem", "problema", "kulang", "incomplete", "hard",
             "late", "delayed"} |-> -700] @@
    [w \in {"mali", "kakulangan", "crowded", "difficult", "nahirapan",
             "magulo", "unprepared"} |-> -800] @@
    [w \in {"worst"} |-> -2000] @@
    [w \in {"noisy", "matagal", "mabagal", "mediocre"} |-> -600] @@
    [w \in {"meh"} |-> -500] @@
    [w \in {"bagsak"} |-> -1500]

DefaultPositivePhrases ==
    << "very good", "ang ganda", "sobrang ganda", "sobra ganda",
       "ang galing", "maraming salamat", "thank you so much",
       "napakaganda", "napakagaling", "the best", "well done",
       "job well done", "great job", "excellent work", "love it",
       "loved it", "napakasaya", "sobrang saya", "sobra saya",
       "ang saya", "napakaayos", "sobrang ayos", "ang husay",
       "napakatahimik", "well-organized", "well-prepared",
       "well-managed", "well-planned" >>

DefaultNegativePhrases ==
    << "not good", "not great", "hindi maganda", "walang kwenta",
       "waste of time", "sayang lang", "hindi ako satisfied",
       "bad experience", "poor quality", "very bad", "so bad",
       "napakamasama", "sobrang masama", "ang sama", "napakapangit",
       "sobrang pangit", "hindi prepared", "hindi naging maayos",
       "hindi maayos", "hindi okay", "hindi ayos", "di maayos",
       "di maganda", "waste of energy" >>

\* 'however' and 'okay lang' are one element: the source has no comma
\* between the two literals (lines 92-94)
DefaultNeutralIndicators ==
    << "okay", "ok", "alright", "fine", "so-so", "average", "normal",
       "ordinary", "mediocre", "fair", "decent", "not bad", "moderate",
       "acceptable", "passable", "adequate", "sufficient",
       "howeverokay lang", "ok lang", "oks lang", "ayos lang",
       "pwede na", "pwede naman", "ganon lang", "ganun lang",
       "sige lang", "lang naman", "naman", "typical", "karaniwan",
       "normal lang", "sige", "pwede", "maaari", "maybe", "perhaps",
       "siguro", "may improvement", "pwede pang", "pero okay",
       "pero ayos" >>

negations ==
    << "not", "no", "never", "hindi", "wala", "walang", "di", "di ko",
       "hinde" >>

intensifiers ==
    << "very", "really", "extremely", "super", "sobra", "sobrang",
       "napaka", "labis", "grabe", "talaga", "so", "too", "ganado",
       "masyado" >>

diminishers ==
    << "slightly", "somewhat", "a bit", "a little", "medyo", "konti",
       "kaunti", "bahagya" >>

positive_emoticons ==
    << "@", "#", "$", "%", "^", "&", "*", ":)", ":-)", ":D" >>

negative_emoticons ==
    << "<", ">", "{", "}", "[", "]", "|", ":(", ":-(", "D:" >>

tagalog_prefixes ==
    << "nag-", "nag", "mag-", "mag", "na-", "na", "ma-", "ma", "naka-",
       "naka", "ipinag-", "ipinag", "pag-", "pag" >>

tagalog_suffixes ==
    << "-an", "an", "-in", "in", "-nan", "nan", "-hin", "hin" >>

-----------------------------------------------------------------------------
(* Python values the model needs.                                          *)

\* dict.get(key, default) on a result dict (a record)
Get(d, key, default) == IF key \in DOMAIN d THEN d[key] ELSE default

\* An optional number is a set: {} is None, {v} is the number v.
None == {}

ValueOf(opt) == CHOOSE v \in opt : TRUE

\* table.get(key) on a lexicon table
TableGet(table, key) == IF key \in DOMAIN table THEN {table[key]} ELSE None

\* Python truthiness of table.get(...): None and 0.0 are false
Truthy(opt) == opt # None /\ opt # {0}

\* a or b
Or(a, b) == IF Truthy(a) THEN a ELSE b

\* x * multiplier, both in thousandths
Times(x, multiplier) == (x * multiplier) \div 1000

\* round(x, 2) on thousandths: to the nearest hundredth, ties to even
Round2(x) ==
    LET a == Abs(x)
        q == a \div 10
        r == a % 10
        n == IF r < 5 THEN q
             ELSE IF r > 5 THEN q + 1
             ELSE IF q % 2 = 0 THEN q ELSE q + 1
    IN  IF x < 0 THEN -(n * 10) ELSE n * 10

\* sorted(list, key=len, reverse=True): stable, longest first
RECURSIVE LongestFirst(_, _)
LongestFirst(list, n) ==
    IF n < 0 THEN <<>>
    ELSE SelectSeq(list, LAMBDA x : Len(x) = n) \o LongestFirst(list, n - 1)

MaxLenIn(list) ==
    IF list = <<>> THEN 0
    ELSE CHOOSE n \in {Len(list[k]) : k \in 1..Len(list)} :
             \A k \in 1..Len(list) : Len(list[k]) <= n

SortedByLenDesc(list) == LongestFirst(list, MaxLenIn(list))

\* the first element of list satisfying a test given as the set of
\* indices at which it holds; 0 if there is none
FirstIndex(hits) == IF hits = {} THEN 0 ELSE CHOOSE k \in hits : \A j \in hits : k <= j

-----------------------------------------------------------------------------
(* stem_tagalog (lines 130-153)                                            *)

StripPrefix(word) ==
    LET prefixes == SortedByLenDesc(tagalog_prefixes)
        k == FirstIndex({i \in 1..Len(prefixes) : StartsWith(word, prefixes[i])})
    IN  IF k = 0 THEN word
        ELSE LET rest == DropFirst(word, Len(prefixes[k]))
             IN  IF StartsWith(rest, "-") THEN DropFirst(rest, 1) ELSE rest

StripSuffix(stemmed) ==
    LET suffixes == SortedByLenDesc(tagalog_suffixes)
        k == FirstIndex({i \in 1..Len(suffixes) : EndsWith(stemmed, suffixes[i])})
    IN  IF k = 0 THEN stemmed
        ELSE LET rest == DropLast(stemmed, Len(suffixes[k]))
             IN  IF EndsWith(rest, "-") THEN DropLast(rest, 1) ELSE rest

stem_tagalog(word) ==
    IF Len(word) <= 4 THEN word
    ELSE LET afterPrefix == StripPrefix(word)
             stemmed == IF Len(afterPrefix) > 4 THEN StripSuffix(afterPrefix)
                        ELSE afterPrefix
         IN  IF Len(stemmed) >= 3 THEN stemmed ELSE word

-----------------------------------------------------------------------------
(* load_custom_lexicon (lines 155-179)                                     *)
(* A lexicon item is a record holding the keys the caller gave, among      *)
(* word, sentiment, weight, language, isPhrase.  A weight is               *)
(* [num |-> thousandths] for a number and [str |-> text] for a string that *)
(* is not the text of a number.                                            *)

\* the analyzer's mutable tables right after lines 30-124 of __init__
DefaultSelf ==
    [tagalog_positive |-> DefaultTagalogPositive,
     tagalog_negative |-> DefaultTagalogNegative,
     positive_phrases |-> DefaultPositivePhrases,
     negative_phrases |-> DefaultNegativePhrases,
     neutral_indicators |-> DefaultNeutralIndicators]

\* float(item.get('weight', 1.0)): raises ValueError on a non-numeric string
FloatOfWeight(item) ==
    IF "weight" \notin DOMAIN item THEN [raised |-> FALSE, value |-> 1000]
    ELSE IF "num" \in DOMAIN item.weight
         THEN [raised |-> FALSE, value |-> item.weight.num]
         ELSE [raised |-> TRUE]

\* the body of the for loop with the two table assignments (lines 168, 172)
\* keeping an entry the table already has
MergeItem_first_write_wins(self, item, weight) ==
    LET word == Lower(Get(item, "word", ""))
        sentiment == Get(item, "sentiment", "None")
        language == Get(item, "language", "en")
        is_phrase == Get(item, "isPhrase", FALSE)
    IN  IF language # "tl" THEN self
        ELSE IF sentiment = "positive"
        THEN [self EXCEPT
                !.tagalog_positive = @ @@ (word :> weight),
                !.positive_phrases = IF is_phrase THEN Append(@, word) ELSE @]
        ELSE IF sentiment = "negative"
        THEN [self EXCEPT
                !.tagalog_negative = @ @@ (word :> (-weight)),
                !.negative_phrases = IF is_phrase THEN Append(@, word) ELSE @]
        ELSE IF sentiment = "neutral"
        THEN [self EXCEPT !.neutral_indicators = Append(@, word)]
        ELSE self

\* the body of the for loop for one item whose weight converts (lines 160-176)
MergeItem(self, item, weight) ==
    LET word == Lower(Get(item, "word", ""))
        sentiment == Get(item, "sentiment", "None")
        language == Get(item, "language", "en")
        is_phrase == Get(item, "isPhrase", FALSE)
    IN  IF language # "tl" THEN self
        ELSE IF sentiment = "positive"
        THEN [self EXCEPT
                !.tagalog_positive = (word :> weight) @@ @,
                !.positive_phrases = IF is_phrase THEN Append(@, word) ELSE @]
        ELSE IF sentiment = "negative"
        THEN [self EXCEPT
                !.tagalog_negative = (word :> (-weight)) @@ @,
                !.negative_phrases = IF is_phrase THEN Append(@, word) ELSE @]
        ELSE IF sentiment = "neutral"
        THEN [self EXCEPT !.neutral_indicators = Append(@, word)]
        ELSE self

\* the whole loop; raised is TRUE when float() raised at some item, and self
\* is then the tables as the items before it left them
RECURSIVE load_custom_lexicon(_, _)
load_custom_lexicon(self, lexicon) ==
    IF lexicon = <<>> THEN [raised |-> FALSE, self |-> self]
    ELSE LET item == Head(lexicon)
             weight == FloatOfWeight(item)
         IN  IF weight.raised THEN [raised |-> TRUE, self |-> self]
             ELSE load_custom_lexicon(MergeItem(self, item, weight.value),
                                      Tail(lexicon))

\* __init__(custom_lexicon) (lines 28-128); custom_lexicon = <<>> is the
\* falsy argument (None or an empty list), for which nothing is loaded
Construct(custom_lexicon) ==
    IF custom_lexicon = <<>> THEN [raised |-> FALSE, self |-> DefaultSelf]
    ELSE load_custom_lexicon(DefaultSelf, custom_lexicon)

-----------------------------------------------------------------------------
(* analyze_sentence_sentiment (lines 243-285)                              *)

constructive_patterns ==
    << "could be improved", "could still be improved", "room for improvement",
       "with a few adjustments", "next time", "believe the next",
       "can be even better", "some areas", "however", "but", "although",
       "maaaring pagbutihin", "maaaring mapabuti", "may mga areas na maaaring",
       "sa susunod", "next time", "pwede pang mapabuti", "sana ay maayos",
       "pero", "ngunit", "subalit", "gayunpaman" >>

\* (table.get(word) or table.get(stemmed)): None when the first is None or
\* 0.0 and stemmed is not a key
GetWordOrStem(table, word, stemmed) ==
    Or(TableGet(table, word), TableGet(table, stemmed))

\* lines 271-278 and 402-414: which table scores the word, and with what.
\* table is "positive", "negative" or "none"; raised is TRUE when the
\* lookup gives None, which the multiplication turns into a TypeError
WordLookup(self, word) ==
    Bind(stem_tagalog(word), LAMBDA stemmed :
        IF word \in DOMAIN self.tagalog_positive
           \/ stemmed \in DOMAIN self.tagalog_positive
        THEN Bind(GetWordOrStem(self.tagalog_positive, word, stemmed), LAMBDA got :
                 IF got = None THEN [table |-> "positive", raised |-> TRUE]
                 ELSE [table |-> "positive", raised |-> FALSE, value |-> ValueOf(got)])
        ELSE IF word \in DOMAIN self.tagalog_negative
                \/ stemmed \in DOMAIN self.tagalog_negative
        THEN Bind(GetWordOrStem(self.tagalog_negative, word, stemmed), LAMBDA got :
                 IF got = None THEN [table |-> "negative", raised |-> TRUE]
                 ELSE [table |-> "negative", raised |-> FALSE,
                       value |-> Abs(ValueOf(got))])
        ELSE [table |-> "none", raised |-> FALSE])

\* one iteration of the word loop (lines 263-278) on the accumulators acc
SentenceWordStep(self, words, i, acc) ==
    LET is_negated == i > 1 /\ InList(words[i - 1], negations)
        multiplier == IF i > 1 /\ InList(words[i - 1], intensifiers)
                      THEN 1500 ELSE 1000
    IN  Bind(WordLookup(self, words[i]), LAMBDA found :
            IF found.raised THEN [acc EXCEPT !.raised = TRUE]
            ELSE IF found.table = "none" THEN acc
            ELSE Bind(Times(found.value, multiplier), LAMBDA score :
                     IF (found.table = "positive") # is_negated
                     THEN [acc EXCEPT !.positive = @ + score]
                     ELSE [acc EXCEPT !.negative = @ + score]))

RECURSIVE SentenceWordLoop(_, _, _, _)
SentenceWordLoop(self, words, i, acc) ==
    IF i > Len(words) \/ acc.raised THEN acc
    ELSE Bind(SentenceWordStep(self, words, i, acc), LAMBDA next :
             SentenceWordLoop(self, words, i + 1, next))

\* raised is TRUE when the function raises TypeError (None * multiplier)
analyze_sentence_sentiment(self, sentence) ==
    Bind(Lower(sentence), LAMBDA sentence_lower :
    Bind(SplitWhitespace(sentence_lower), LAMBDA words :
    Bind(SentenceWordLoop(self, words, 1,
                          [raised |-> FALSE, positive |-> 0, negative |-> 0]),
         LAMBDA acc :
        IF acc.raised THEN [raised |-> TRUE]
        ELSE [raised |-> FALSE,
              positive |-> acc.positive,
              negative |-> acc.negative,
              is_constructive |->
                  \E k \in 1..Len(constructive_patterns) :
                      Contains(sentence_lower, constructive_patterns[k]),
              balance |-> acc.positive - acc.negative])))

\* [s.strip() for s in text.replace('!', '.').replace('?', '.').split('.')
\*  if s.strip()]   (lines 366 and 606)
SplitSentences(text) ==
    Bind(Replace(Replace(text, "!", "."), "?", "."), LAMBDA dotted :
    Bind(SplitOn(dotted, ".", "", <<>>), LAMBDA pieces :
    Bind([k \in 1..Len(pieces) |-> Strip(pieces[k])], LAMBDA stripped :
        SelectSeq(stripped, LAMBDA x : x # ""))))

-----------------------------------------------------------------------------
(* analyze_tagalog_sentiment (lines 287-471)                               *)

\* lines 299-305: +0.5 for each positive emoticon found, -0.5 for each negative
EmoticonScore(text) ==
    500 * Cardinality({k \in 1..Len(positive_emoticons) :
                           Contains(text, positive_emoticons[k])})
    - 500 * Cardinality({k \in 1..Len(negative_emoticons) :
                             Contains(text, negative_emoticons[k])})

\* lines 307-310: one count for each list element found as a substring
NeutralCount(self, text_lower) ==
    Cardinality({k \in 1..Len(self.neutral_indicators) :
                     Contains(text_lower, self.neutral_indicators[k])})

\* lines 313-318
is_negated_context(text, start_idx) ==
    IF start_idx <= 0 THEN FALSE
    ELSE Bind(Lower(SubSeq(text, Max(0, start_idx - 20) + 1, start_idx)),
              LAMBDA context :
         Bind(FindAllWords(context), LAMBDA context_words :
             \E k \in 1..Len(negations) : InList(negations[k], context_words)))

\* \b of re at Python offset p of s
IsBoundary(s, p) ==
    LET before == p >= 1 /\ Char(s, p) \in WordChars
        after == p < Len(s) /\ Char(s, p + 1) \in WordChars
    IN  before # after

\* r'\b' + re.escape(phrase) + r'\b' matches s at offset p
PhraseMatchesAt(s, phrase, p) ==
    /\ SubSeq(s, p + 1, p + Len(phrase)) = phrase
    /\ IsBoundary(s, p)
    /\ IsBoundary(s, p + Len(phrase))

\* the start offsets re.finditer yields: leftmost first, not overlapping
RECURSIVE FindIter(_, _, _, _)
FindIter(s, phrase, from, acc) ==
    Bind({p \in from..(Len(s) - Len(phrase)) : PhraseMatchesAt(s, phrase, p)},
         LAMBDA hits :
        IF hits = {} THEN acc
        ELSE Bind(CHOOSE x \in hits : \A y \in hits : x <= y, LAMBDA p :
             Bind(Append(acc, p), LAMBDA found :
             Bind(p + Max(Len(phrase), 1), LAMBDA next :
                 FindIter(s, phrase, next, found)))))

\* start_idx in r for some r of used_phrase_ranges (lines 336, 352, 381)
StartInUsedRange(start_idx, used_phrase_ranges) ==
    \E k \in 1..Len(used_phrase_ranges) :
        /\ used_phrase_ranges[k].start <= start_idx
        /\ start_idx < used_phrase_ranges[k].end

\* the body of the finditer loop for one match (lines 332-343, 349-359);
\* positive is TRUE for the loop over sorted_pos_phrases
PhraseMatchStep(text_lower, start_idx, length, positive, acc) ==
    IF StartInUsedRange(start_idx, acc.used_phrase_ranges) THEN acc
    ELSE Bind(is_negated_context(text_lower, start_idx), LAMBDA negated :
             [acc EXCEPT
                !.positive_score =
                    IF positive /\ ~negated THEN @ + 2500
                    ELSE IF ~positive /\ negated THEN @ + 2000 ELSE @,
                !.negative_score =
                    IF positive /\ negated THEN @ + 2000
                    ELSE IF ~positive /\ ~negated THEN @ + 2500 ELSE @,
                !.used_phrase_ranges =
                    Append(@, [start |-> start_idx, end |-> start_idx + length])])

RECURSIVE PhraseMatchLoop(_, _, _, _, _, _)
PhraseMatchLoop(text_lower, starts, j, length, positive, acc) ==
    IF j > Len(starts) THEN acc
    ELSE Bind(PhraseMatchStep(text_lower, starts[j], length, positive, acc),
              LAMBDA next :
             PhraseMatchLoop(text_lower, starts, j + 1, length, positive, next))

\* for phrase in sorted phrases (lines 327-343, 345-359)
RECURSIVE PhraseLoop(_, _, _, _, _)
PhraseLoop(text_lower, phrases, k, positive, acc) ==
    IF k > Len(phrases) THEN acc
    ELSE IF ~Contains(text_lower, phrases[k])
    THEN PhraseLoop(text_lower, phrases, k + 1, positive, acc)
    ELSE Bind(FindIter(text_lower, phrases[k], 0, <<>>), LAMBDA starts :
         Bind(PhraseMatchLoop(text_lower, starts, 1, Len(phrases[k]), positive, acc),
              LAMBDA next :
             PhraseLoop(text_lower, phrases, k + 1, positive, next)))

\* lines 388-396: the first of the previous two words that is a marker decides
WordMultiplier(words_data, i) ==
    Bind({j \in Max(1, i - 2)..(i - 1) :
              InList(words_data[j].word, intensifiers)
              \/ InList(words_data[j].word, diminishers)},
         LAMBDA marked :
        IF marked = {} THEN 1000
        ELSE Bind(CHOOSE x \in marked : \A y \in marked : x <= y, LAMBDA j :
                 IF InList(words_data[j].word, intensifiers) THEN 2000 ELSE 500))

\* one iteration of the word-level loop (lines 376-414); scored_words records
\* the spans of the words that were scored, for the properties below
WordStep(self, text_lower, words_data, i, acc) ==
    IF StartInUsedRange(words_data[i].start, acc.used_phrase_ranges) THEN acc
    ELSE Bind(WordLookup(self, words_data[i].word), LAMBDA found :
            IF found.raised THEN [acc EXCEPT !.raised = TRUE]
            ELSE IF found.table = "none" THEN acc
            ELSE Bind(is_negated_context(text_lower, words_data[i].start),
                      LAMBDA is_negated :
                 Bind(Times(found.value, WordMultiplier(words_data, i)),
                      LAMBDA score :
                     IF (found.table = "positive") # is_negated
                     THEN [acc EXCEPT
                             !.positive_score = @ + score,
                             !.scored_words =
                                 Append(@, [start |-> words_data[i].start,
                                            end |-> words_data[i].end])]
                     ELSE [acc EXCEPT
                             !.negative_score = @ + score,
                             !.scored_words =
                                 Append(@, [start |-> words_data[i].start,
                                            end |-> words_data[i].end])])))

RECURSIVE WordLoop(_, _, _, _, _)
WordLoop(self, text_lower, words_data, i, acc) ==
    IF i > Len(words_data) \/ acc.raised THEN acc
    ELSE Bind(WordStep(self, text_lower, words_data, i, acc), LAMBDA next :
             WordLoop(self, text_lower, words_data, i + 1, next))

\* lines 320-414 without the sentence loop: the phrase loops, then the word
\* loop, on fresh accumulators
LexicalScores(self, text) ==
    Bind(Lower(text), LAMBDA text_lower :
    Bind(SortedByLenDesc(self.positive_phrases), LAMBDA sorted_pos_phrases :
    Bind(SortedByLenDesc(self.negative_phrases), LAMBDA sorted_neg_phrases :
    Bind(PhraseLoop(text_lower, sorted_pos_phrases, 1, TRUE,
                    [raised |-> FALSE, positive_score |-> 0, negative_score |-> 0,
                     used_phrase_ranges |-> <<>>, scored_words |-> <<>>]),
         LAMBDA afterPos :
    Bind(PhraseLoop(text_lower, sorted_neg_phrases, 1, FALSE, afterPos),
         LAMBDA afterNeg :
    Bind(WordMatches(text_lower), LAMBDA words_data :
        WordLoop(self, text_lower, words_data, 1, afterNeg)))))))

\* lines 366-373: the per-sentence analyses, or <<[raised |-> TRUE]>> when
\* one of them raises
SentenceSentiments(self, text) ==
    Bind(SplitSentences(text), LAMBDA sentences :
    Bind([k \in 1..Len(sentences) |-> analyze_sentence_sentiment(self, sentences[k])],
         LAMBDA all :
        IF \E k \in 1..Len(all) : all[k].raised THEN <<[raised |-> TRUE]>> ELSE all))

\* the result of the except branch (lines 466-471)
TagalogFallback == [sentiment |-> "neutral", error |-> "Tagalog analysis failed",
                    method |-> "fallback"]

\* lines 416-449 on the accumulated scores
Classify(positive_score, negative_score, neutral_count, positive_sentences, negative_sentences, constructive_criticism_count) ==
    LET total_score == positive_score - negative_score
        has_mixed_sentiment ==
            (positive_sentences > 0 /\ negative_sentences > 0)
            \/ constructive_criticism_count > 0
        has_significant_negative == negative_score >= 1000
    IN  IF neutral_count >= 1 /\ positive_score < 1000 /\ negative_score < 1000
        THEN [sentiment |-> "neutral", confidence |-> 750]
        ELSE IF has_mixed_sentiment
                /\ (constructive_criticism_count >= 2 \/ has_significant_negative)
        THEN [sentiment |-> "neutral", confidence |-> 800]
        ELSE IF total_score >= 700
        THEN [sentiment |-> "positive",
              confidence |-> Min(600 + total_score \div 10, 950)]
        ELSE IF total_score <= -700
        THEN [sentiment |-> "negative",
              confidence |-> Min(600 + Abs(total_score) \div 10, 950)]
        ELSE [sentiment |-> "neutral", confidence |-> 650]

\* lines 416-465 once the loops are done without raising
TagalogResult(emoticon_score, neutral_count, sentence_sentiments, scores) ==
    LET n == Len(sentence_sentiments)
        constructive_criticism_count ==
            Cardinality({k \in 1..n : sentence_sentiments[k].is_constructive})
        positive_score ==
            scores.positive_score + (IF emoticon_score > 0 THEN emoticon_score ELSE 0)
        negative_score ==
            scores.negative_score + (IF emoticon_score < 0 THEN -emoticon_score ELSE 0)
        positive_sentences ==
            Cardinality({k \in 1..n : sentence_sentiments[k].balance > 500})
        negative_sentences ==
            Cardinality({k \in 1..n : sentence_sentiments[k].balance < -500})
    IN  Bind(Classify(positive_score, negative_score, neutral_count,
                      positive_sentences, negative_sentences,
                      constructive_criticism_count),
             LAMBDA decided :
            [sentiment |-> decided.sentiment,
             positive_score |-> Round2(positive_score),
             negative_score |-> Round2(negative_score),
             total_score |-> Round2(positive_score - negative_score),
             confidence |-> Round2(decided.confidence),
             method |-> "tagalog_lexicon_enhanced",
             sentence_analysis |->
                 [total_sentences |-> n,
                  positive_sentences |-> positive_sentences,
                  negative_sentences |-> negative_sentences,
                  neutral_sentences |-> n - positive_sentences - negative_sentences,
                  constructive_criticism |-> constructive_criticism_count]])

analyze_tagalog_sentiment(self, text) ==
    Bind(SentenceSentiments(self, text), LAMBDA sentence_sentiments :
        IF sentence_sentiments # <<>> /\ sentence_sentiments[1].raised
        THEN TagalogFallback
        ELSE Bind(LexicalScores(self, text), LAMBDA scores :
                 IF scores.raised THEN TagalogFallback
                 ELSE Bind(EmoticonScore(text), LAMBDA emoticon_score :
                      Bind(NeutralCount(self, Lower(text)), LAMBDA neutral_count :
                          TagalogResult(emoticon_score, neutral_count,
                                        sentence_sentiments, scores)))))

-----------------------------------------------------------------------------
(* The two external collaborators.  An outcome is what one call of the     *)
(* collaborator does: [raised |-> TRUE] when it raises, otherwise the      *)
(* values it returns.                                                      *)

\* langid.classify(text) returned (lang, confidence)
LangReturned(lang, confidence) ==
    [raised |-> FALSE, lang |-> lang, confidence |-> confidence]

\* TextBlob(text).sentiment gave (polarity, subjectivity)
BlobReturned(polarity, subjectivity) ==
    [raised |-> FALSE, polarity |-> polarity, subjectivity |-> subjectivity]

Raises == [raised |-> TRUE]

\* detect_language (lines 182-197)
detect_language(lang_outcome) ==
    IF lang_outcome.raised
    THEN [language |-> "unknown", confidence |-> 0, is_reliable |-> FALSE,
          error |-> "langid raised"]
    ELSE [language |-> lang_outcome.lang,
          confidence |-> lang_outcome.confidence,
          is_reliable |-> lang_outcome.confidence > 700]

\* lines 201-235: the try block once TextBlob gave polarity and subjectivity
EnglishResult(text, blob_polarity, blob_subjectivity) ==
    LET emoticon_boost ==
            150 * Cardinality({k \in 1..Len(positive_emoticons) :
                                   Contains(text, positive_emoticons[k])})
            - 150 * Cardinality({k \in 1..Len(negative_emoticons) :
                                     Contains(text, negative_emoticons[k])})
        polarity == Max(-1000, Min(1000, blob_polarity + emoticon_boost))
        sentiment == IF polarity > 150 THEN "positive"
                     ELSE IF polarity < -150 THEN "negative"
                     ELSE "neutral"
        confidence == Min(Times(Abs(polarity) + 200, 1200), 1000)
    IN  [sentiment |-> sentiment,
         polarity |-> polarity,
         subjectivity |-> blob_subjectivity,
         confidence |-> confidence,
         method |-> "textblob_english_enhanced"]

\* analyze_english_sentiment with the except branch (lines 236-241) taken out:
\* a failed TextBlob counts as polarity 0.0
analyze_english_sentiment_unprotected(text, blob_outcome) ==
    EnglishResult(text, Get(blob_outcome, "polarity", 0),
                  Get(blob_outcome, "subjectivity", 0))

\* analyze_english_sentiment (lines 199-241)
analyze_english_sentiment(text, blob_outcome) ==
    IF blob_outcome.raised
    THEN [sentiment |-> "neutral", error |-> "English analysis failed",
          method |-> "fallback"]
    ELSE EnglishResult(text, blob_outcome.polarity, blob_outcome.subjectivity)

contrast_words == << "but", "however", "although", "pero", "ngunit", "subalit" >>

\* lines 511-523: the more confident of the two results, or their blend
ConfidenceBlend(tagalog_result, english_result) ==
    IF Get(english_result, "confidence", 0) > Get(tagalog_result, "confidence", 0)
    THEN IF Abs(Get(tagalog_result, "total_score", 0)) > 1000
         THEN [sentiment |->
                   IF Get(english_result, "polarity", 0)
                      + Get(tagalog_result, "total_score", 0) > 0
                   THEN "positive" ELSE "negative",
               confidence |->
                   (Get(english_result, "confidence", 0)
                    + Get(tagalog_result, "confidence", 0)) \div 2,
               method |-> "blended_mixed_confidence"]
         ELSE english_result
    ELSE tagalog_result

\* lines 487-523 with the contrast rule (lines 496-509) taken out
MixedDecision_without_contrast_rule(neutral_count, has_contrast, tagalog_result, english_result) ==
    IF neutral_count >= 1 /\ tagalog_result.sentiment = "neutral"
    THEN tagalog_result
    ELSE IF Abs(Get(tagalog_result, "total_score", 0)) >= 2000
    THEN tagalog_result
    ELSE ConfidenceBlend(tagalog_result, english_result)

\* lines 487-523 on the two scorers' results
MixedDecision(neutral_count, has_contrast, tagalog_result, english_result) ==
    IF neutral_count >= 1 /\ tagalog_result.sentiment = "neutral"
    THEN tagalog_result
    ELSE IF Abs(Get(tagalog_result, "total_score", 0)) >= 2000
    THEN tagalog_result
    ELSE IF has_contrast /\ (Get(tagalog_result, "positive_score", 0) > 0
                             \/ Get(tagalog_result, "negative_score", 0) > 0)
    THEN [sentiment |-> "neutral",
          confidence |-> 800,
          method |-> "mixed_contrast_override",
          original_english |-> english_result,
          original_tagalog |-> tagalog_result]
    ELSE ConfidenceBlend(tagalog_result, english_result)

\* analyze_mixed_sentiment (lines 473-529)
analyze_mixed_sentiment(self, text, blob_outcome) ==
    Bind(Lower(text), LAMBDA text_lower :
    Bind(analyze_tagalog_sentiment(self, text), LAMBDA tagalog_result :
    Bind(analyze_english_sentiment(text, blob_outcome), LAMBDA english_result :
        MixedDecision(NeutralCount(self, text_lower),
                      \E k \in 1..Len(contrast_words) :
                          Contains(text_lower, contrast_words[k]),
                      tagalog_result, english_result))))

-----------------------------------------------------------------------------
(* remove_emojis (lines 531-549)                                           *)

\* for emoticon in positive_emoticons + negative_emoticons: text.replace
RECURSIVE RemoveEmoticons(_, _, _)
RemoveEmoticons(text, emoticons, k) ==
    IF k > Len(emoticons) THEN text
    ELSE RemoveEmoticons(Replace(text, emoticons[k], ""), emoticons, k + 1)

\* emoji_pattern.sub('', text)
RECURSIVE RemoveEmojiPattern(_)
RemoveEmojiPattern(text) ==
    IF text = "" THEN ""
    ELSE IF Char(text, 1) \in EmojiPatternChars THEN RemoveEmojiPattern(Tail(text))
    ELSE Char(text, 1) \o RemoveEmojiPattern(Tail(text))

remove_emojis(text) ==
    Strip(RemoveEmojiPattern(
              RemoveEmoticons(text, positive_emoticons \o negative_emoticons, 1)))

-----------------------------------------------------------------------------
(* analyze_sentiment (lines 551-600).  The value is the result dict and,   *)
(* in calls, the collaborators and scorers the call invoked, in order.     *)

\* lines 576-581
HasStrongTagalog(self, text_lower) ==
    \/ \E k \in 1..Len(self.positive_phrases) :
           Contains(text_lower, self.positive_phrases[k])
    \/ \E k \in 1..Len(self.negative_phrases) :
           Contains(text_lower, self.negative_phrases[k])
    \/ LET words == FindAllWords(text_lower)
       IN  \E k \in 1..Len(words) :
               words[k] \in DOMAIN self.tagalog_positive
               \/ words[k] \in DOMAIN self.tagalog_negative

\* lines 593-599: the two keys added to the scorer's result
WithInfo(result, lang_info, text, cleaned_text) ==
    [k \in DOMAIN result \cup {"language", "emoji_removal"} |->
        IF k = "language" THEN lang_info
        ELSE IF k = "emoji_removal"
        THEN [original_text |-> text, cleaned_text |-> cleaned_text,
              emojis_removed |-> text # cleaned_text]
        ELSE result[k]]

\* lines 572-600: language detection, the choice of the scorer, and the keys
\* added to its result
Dispatch(self, text, cleaned_text, lang_outcome, blob_outcome) ==
    Bind(detect_language(lang_outcome), LAMBDA lang_info :
    Bind(HasStrongTagalog(self, Lower(cleaned_text)), LAMBDA has_strong_tagalog :
        IF lang_info.language = "en" /\ lang_info.is_reliable /\ ~has_strong_tagalog
        THEN [result |-> WithInfo(analyze_english_sentiment(cleaned_text, blob_outcome),
                                  lang_info, text, cleaned_text),
              calls |-> <<"langid.classify", "analyze_english_sentiment", "TextBlob">>]
        ELSE IF lang_info.language = "tl"
        THEN [result |-> WithInfo(analyze_tagalog_sentiment(self, cleaned_text),
                                  lang_info, text, cleaned_text),
              calls |-> <<"langid.classify", "analyze_tagalog_sentiment">>]
        ELSE [result |-> WithInfo(analyze_mixed_sentiment(self, cleaned_text, blob_outcome),
                                  lang_info, text, cleaned_text),
              calls |-> <<"langid.classify", "analyze_mixed_sentiment",
                          "analyze_tagalog_sentiment", "analyze_english_sentiment",
                          "TextBlob">>]))

\* analyze_sentiment without its two early returns (lines 553-570)
analyze_sentiment_unguarded(self, text, lang_outcome, blob_outcome) ==
    Dispatch(self, text, remove_emojis(text), lang_outcome, blob_outcome)

analyze_sentiment(self, text, lang_outcome, blob_outcome) ==
    IF text = "" \/ Strip(text) = ""
    THEN [result |-> [sentiment |-> "neutral", confidence |-> 0,
                      method |-> "empty_text"],
          calls |-> <<>>]
    ELSE Bind(remove_emojis(text), LAMBDA cleaned_text :
             IF cleaned_text = ""
             THEN [result |-> [sentiment |-> "neutral", confidence |-> 0,
                               method |-> "empty_after_emoji_removal",
                               original_text |-> text,
                               cleaned_text |-> cleaned_text],
                   calls |-> <<>>]
             ELSE Dispatch(self, text, cleaned_text, lang_outcome, blob_outcome))

-----------------------------------------------------------------------------
(* split_comment_by_sentiment (lines 602-646)                              *)

\* sep.join(list)
RECURSIVE JoinWith(_, _)
JoinWith(list, sep) ==
    IF list = <<>> THEN ""
    ELSE IF Len(list) = 1 THEN list[1]
    ELSE list[1] \o sep \o JoinWith(Tail(list), sep)

\* '. '.join(sentences) + ('.' if sentences else ''), stripped (lines 624-631)
TextBlock(sentences) ==
    Strip(JoinWith(sentences, ". ") \o (IF sentences = <<>> THEN "" ELSE "."))

\* the body of the for loop (lines 613-621) on the three lists
RECURSIVE BucketLoop(_, _, _, _)
BucketLoop(self, sentences, k, acc) ==
    IF k > Len(sentences) \/ acc.raised THEN acc
    ELSE Bind(analyze_sentence_sentiment(self, sentences[k]), LAMBDA sent_analysis :
         Bind(IF sent_analysis.raised THEN [acc EXCEPT !.raised = TRUE]
              ELSE IF sent_analysis.balance > 300
              THEN [acc EXCEPT !.positive = Append(@, sentences[k])]
              ELSE IF sent_analysis.balance < -300
              THEN [acc EXCEPT !.negative = Append(@, sentences[k])]
              ELSE [acc EXCEPT !.neutral = Append(@, sentences[k])],
              LAMBDA next : BucketLoop(self, sentences, k + 1, next)))

split_comment_by_sentiment(text, self) ==
    Bind(SplitSentences(text), LAMBDA sentences :
    Bind(BucketLoop(self, sentences, 1,
                    [raised |-> FALSE, positive |-> <<>>, negative |-> <<>>,
                     neutral |-> <<>>]),
         LAMBDA lists :
        IF lists.raised
        THEN [positive_part |-> text, negative_part |-> "", neutral_part |-> "",
              sentence_counts |-> [positive |-> 0, negative |-> 0, neutral |-> 0],
              error |-> "TypeError"]
        ELSE [positive_part |-> TextBlock(lists.positive),
              negative_part |-> TextBlock(lists.negative),
              neutral_part |-> TextBlock(lists.neutral),
              sentence_counts |-> [positive |-> Len(lists.positive),
                                   negative |-> Len(lists.negative),
                                   neutral |-> Len(lists.neutral)]]))

-----------------------------------------------------------------------------
(* generate_report (lines 648-718).  A feedback item is [str |-> s] for    *)
(* the string s, [num |-> v] for the number v and [none |-> TRUE] for      *)
(* None.  outcomes[k] is what the two collaborators do while item k is     *)
(* analysed.                                                               *)

\* `not feedback` (line 668)
ItemIsFalsy(feedback) ==
    \/ "none" \in DOMAIN feedback
    \/ "num" \in DOMAIN feedback /\ feedback.num = 0
    \/ "str" \in DOMAIN feedback /\ feedback.str = ""

\* feedback.strip() raises AttributeError: a number has no strip
StripRaises(feedback) == "str" \notin DOMAIN feedback

\* round(count / total_feedbacks * 100, 2) in thousandths (lines 698-702)
Percentage(count, total_feedbacks) ==
    IF total_feedbacks = 0 THEN 0
    ELSE LET n == count * 10000
             q == n \div total_feedbacks
             r == n % total_feedbacks
         IN  IF 2 * r > total_feedbacks \/ (2 * r = total_feedbacks /\ q % 2 = 1)
             THEN (q + 1) * 10
             ELSE q * 10

\* the except branch (lines 713-718)
ReportFailed == [success |-> FALSE, error |-> "Report generation failed"]

\* lines 671-691 for one item that was not skipped
ReportEntry(self, feedback, outcome) ==
    Bind(analyze_sentiment(self, feedback.str, outcome.lang_outcome,
                           outcome.blob_outcome).result,
         LAMBDA analysis :
    Bind(split_comment_by_sentiment(feedback.str, self), LAMBDA comment_parts :
        [text |-> feedback.str,
         sentiment |-> Get(analysis, "sentiment", "neutral"),
         analysis |-> analysis,
         parts |-> comment_parts]))

\* the for loop of lines 667-691 from item k on; acc holds analyzed_feedbacks
RECURSIVE ReportLoop(_, _, _, _, _)
ReportLoop(self, feedbacks, outcomes, k, acc) ==
    IF k > Len(feedbacks) \/ acc.raised THEN acc
    ELSE IF ItemIsFalsy(feedbacks[k])
    THEN ReportLoop(self, feedbacks, outcomes, k + 1, acc)
    ELSE IF StripRaises(feedbacks[k])
    THEN [acc EXCEPT !.raised = TRUE]
    ELSE IF Strip(feedbacks[k].str) = ""
    THEN ReportLoop(self, feedbacks, outcomes, k + 1, acc)
    ELSE Bind(ReportEntry(self, feedbacks[k], outcomes[k]), LAMBDA entry :
             IF entry.sentiment \notin {"positive", "negative", "neutral"}
             THEN [acc EXCEPT !.raised = TRUE]
             ELSE Bind([acc EXCEPT !.analyzed_feedbacks = Append(@, entry)],
                       LAMBDA next :
                      ReportLoop(self, feedbacks, outcomes, k + 1, next)))

\* the entries of analyzed_feedbacks with the given sentiment, without the
\* 'sentiment' key (lines 678-682)
CategorizedAs(analyzed_feedbacks, sentiment) ==
    LET Has(entry) == entry.sentiment = sentiment
        chosen == SelectSeq(analyzed_feedbacks, Has)
    IN  [k \in 1..Len(chosen) |->
            [text |-> chosen[k].text, analysis |-> chosen[k].analysis,
             parts |-> chosen[k].parts]]

generate_report(feedbacks, lexicon, outcomes) ==
    Bind(Construct(lexicon), LAMBDA built :
        IF built.raised THEN ReportFailed
        ELSE Bind(ReportLoop(built.self, feedbacks, outcomes, 1,
                             [raised |-> FALSE, analyzed_feedbacks |-> <<>>]),
                  LAMBDA done :
            IF done.raised THEN ReportFailed
            ELSE LET total_feedbacks == Len(done.analyzed_feedbacks)
                     Count(sentiment) ==
                         Len(CategorizedAs(done.analyzed_feedbacks, sentiment))
                 IN  [success |-> TRUE,
                      summary |->
                          [sentiment \in {"positive", "negative", "neutral"} |->
                              [count |-> Count(sentiment),
                               percentage |->
                                   Percentage(Count(sentiment), total_feedbacks)]],
                      categorized_comments |->
                          [sentiment \in {"positive", "negative", "neutral"} |->
                              CategorizedAs(done.analyzed_feedbacks, sentiment)],
                      analyzed_feedbacks |-> done.analyzed_feedbacks,
                      total_feedbacks |-> total_feedbacks]))

-----------------------------------------------------------------------------
(* The state: one analyzer object and the call made on it.  The tables are  *)
(* written only by __init__ (no method assigns to them), so the            *)
(* specifications below follow each analyzer through its first call.       *)

VARIABLES
    phase,           \* "new": __init__ has built the default tables (lines
                     \* 30-124); "ready": __init__ returned; "construct_raised":
                     \* __init__ raised, there is no analyzer
    analyzer,        \* the analyzer's tables (tagalog_positive, ...)
    custom_lexicon,  \* the custom_lexicon argument __init__ was given
    call,            \* the last call: its name and arguments
    ret              \* what the last call returned

vars == <<phase, analyzer, custom_lexicon, call, ret>>

NoCall == [op |-> "none"]

\* __init__ up to line 124
Init ==
    /\ phase = "new"
    /\ analyzer = DefaultSelf
    /\ custom_lexicon = <<>>
    /\ call = NoCall
    /\ ret = NoCall

\* the rest of __init__ (lines 126-128) for the argument lexicon
NewAnalyzer(lexicon) ==
    /\ phase = "new"
    /\ LET built == Construct(lexicon)
       IN  /\ phase' = IF built.raised THEN "construct_raised" ELSE "ready"
           /\ analyzer' = built.self
    /\ custom_lexicon' = lexicon
    /\ UNCHANGED <<call, ret>>

\* the first call on the analyzer is analyzer.analyze_sentiment(text), the
\* collaborators behaving as the outcomes say
CallAnalyzeSentiment(text, lang_outcome, blob_outcome) ==
    /\ phase = "ready"
    /\ call = NoCall
    /\ call' = [op |-> "analyze_sentiment", text |-> text,
                lang_outcome |-> lang_outcome, blob_outcome |-> blob_outcome]
    /\ ret' = analyze_sentiment(analyzer, text, lang_outcome, blob_outcome)
    /\ UNCHANGED <<phase, analyzer, custom_lexicon>>

\* the first call is analyzer.analyze_tagalog_sentiment(text)
CallAnalyzeTagalog(text) ==
    /\ phase = "ready"
    /\ call = NoCall
    /\ call' = [op |-> "analyze_tagalog_sentiment", text |-> text]
    /\ ret' = analyze_tagalog_sentiment(analyzer, text)
    /\ UNCHANGED <<phase, analyzer, custom_lexicon>>

\* the first call is analyzer.remove_emojis(text)
CallRemoveEmojis(text) ==
    /\ phase = "ready"
    /\ call = NoCall
    /\ call' = [op |-> "remove_emojis", text |-> text]
    /\ ret' = remove_emojis(text)
    /\ UNCHANGED <<phase, analyzer, custom_lexicon>>

\* the first call is split_comment_by_sentiment(text, analyzer)
CallSplitComment(text) ==
    /\ phase = "ready"
    /\ call = NoCall
    /\ call' = [op |-> "split_comment_by_sentiment", text |-> text]
    /\ ret' = split_comment_by_sentiment(text, analyzer)
    /\ UNCHANGED <<phase, analyzer, custom_lexicon>>


\* what a call leaves in the analyzer when it changes it: the called text
\* kept among the neutral indicators
SelfAfterCall_remembering_text(self, c) ==
    [self EXCEPT !.neutral_indicators = Append(@, c.text)]

\* detect_language .. analyze_sentiment and split_comment_by_sentiment
\* (lines 182-646) read self.tagalog_positive, ..., self.tagalog_suffixes and
\* assign none of them: the analyzer after a call is the analyzer before it
SelfAfterCall(self, c) == self

\* what the call c returns on the analyzer self
ResultOfCall(self, c) ==
    IF c.op = "analyze_sentiment"
    THEN analyze_sentiment(self, c.text, c.lang_outcome, c.blob_outcome)
    ELSE IF c.op = "analyze_sentence_sentiment"
    THEN analyze_sentence_sentiment(self, c.text)
    ELSE split_comment_by_sentiment(c.text, self)

\* one more call on the analyzer, the nth of its session
SessionCall(c) ==
    /\ phase = "ready"
    /\ c.nth = Get(call, "nth", 0) + 1
    /\ call' = c
    /\ ret' = ResultOfCall(analyzer, c)
    /\ analyzer' = SelfAfterCall(analyzer, c)
    /\ UNCHANGED <<phase, custom_lexicon>>


\* generate_report(feedbacks, lexicon) is called; it constructs its own
\* analyzer
CallGenerateReport(feedbacks, lexicon, outcomes) ==
    /\ phase = "new"
    /\ call = NoCall
    /\ phase' = "reported"
    /\ analyzer' = Construct(lexicon).self
    /\ custom_lexicon' = lexicon
    /\ call' = [op |-> "generate_report", feedbacks |-> feedbacks,
                outcomes |-> outcomes]
    /\ ret' = generate_report(feedbacks, lexicon, outcomes)

-----------------------------------------------------------------------------
(* Inputs.                                                                 *)

\* the texts of at most n words of vocabulary, consecutive words joined by one
\* of separators
RECURSIVE TextsOf(_, _, _)
TextsOf(vocabulary, separators, n) ==
    IF n <= 0 THEN {}
    ELSE IF n = 1 THEN vocabulary
    ELSE LET shorter == TextsOf(vocabulary, separators, n - 1)
         IN  shorter \cup {t \o sep \o w : t \in shorter, sep \in separators,
                                          w \in vocabulary}

\* the strings of at most n characters of alphabet
RECURSIVE StringsOver(_, _)
StringsOver(alphabet, n) ==
    IF n <= 0 THEN {""}
    ELSE LET shorter == StringsOver(alphabet, n - 1)
         IN  shorter \cup {t \o c : t \in shorter, c \in alphabet}

\* the sequences of at most n elements of pool
RECURSIVE SeqsOver(_, _)
SeqsOver(pool, n) ==
    IF n <= 0 THEN {<<>>}
    ELSE LET shorter == SeqsOver(pool, n - 1)
         IN  shorter \cup {Append(q, x) : q \in shorter, x \in pool}

\* langid.classify: raises, or returns one of these
LangOutcomes ==
    {Raises, LangReturned("en", 900), LangReturned("en", 500), LangReturned("tl", 900)}

\* TextBlob(text).sentiment: raises, or returns one of these
BlobOutcomes ==
    {Raises, BlobReturned(600, 500), BlobReturned(0, 0), BlobReturned(-1000, 1000)}

-----------------------------------------------------------------------------
(* Spec: an analyzer is constructed and analyze_sentiment is called on it.  *)

\* a custom lexicon that makes the scorers raise: "maporma" has weight 0.0
\* and its stem "porma" is in no table
ZeroWeightLexicon ==
    << [word |-> "maporma", sentiment |-> "positive", weight |-> [num |-> 0],
        language |-> "tl", isPhrase |-> FALSE] >>

SessionLexicons == {<<>>, ZeroWeightLexicon}

MaxWords == 2

\* lexicon words and a lexicon phrase, a contrast marker, a word that is both
\* a lexicon word and a neutral indicator, a word of no table, a zero-weight
\* custom word, an emoticon and a pictograph
Vocabulary ==
    {"maganda", "napakaganda", "bagsak", "pero", "sige", "event", "maporma",
     ":)", "@"}

Texts == {"", " "} \cup TextsOf(Vocabulary, {" "}, MaxWords)

Next ==
    \/ \E lexicon \in SessionLexicons : NewAnalyzer(lexicon)
    \/ \E text \in Texts, lang_outcome \in LangOutcomes, blob_outcome \in BlobOutcomes :
           CallAnalyzeSentiment(text, lang_outcome, blob_outcome)

Spec == Init /\ [][Next]_vars

-----------------------------------------------------------------------------
(* SpecScorer: the lexical scorer is called on texts of several sentences.  *)

MaxScorerWords == 3

ScorerVocabulary ==
    {"maganda", "napakaganda", "noisy", "very", "bad", "experience", "sobrang",
     "ganda"}

ScorerTexts == TextsOf(ScorerVocabulary, {" ", ". "}, MaxScorerWords)

NextScorer ==
    \/ NewAnalyzer(<<>>)
    \/ \E text \in ScorerTexts : CallAnalyzeTagalog(text)

SpecScorer == Init /\ [][NextScorer]_vars

-----------------------------------------------------------------------------
(* SpecScaling: the lexical scorer is called on every single-word term of   *)
(* the default tables, alone and after every intensifier and diminisher.   *)

LexiconWords == DOMAIN DefaultTagalogPositive \cup DOMAIN DefaultTagalogNegative

Markers == SeqToSet(intensifiers) \cup SeqToSet(diminishers)

ScalingTexts == LexiconWords \cup {m \o " " \o w : m \in Markers, w \in LexiconWords}

NextScaling ==
    \/ NewAnalyzer(<<>>)
    \/ \E text \in ScalingTexts : CallAnalyzeTagalog(text)

SpecScaling == Init /\ [][NextScaling]_vars

-----------------------------------------------------------------------------
(* SpecLexicon: analyzers are constructed with custom lexicons.            *)

MaxItems == 2

LexiconTerms == {"sulit", "Bongga"}

\* the entry shapes: a key left out is a key the entry does not have
ItemsFor(word) ==
    { [word |-> word, sentiment |-> "positive", weight |-> [num |-> 2000],
       language |-> "tl"],
      [word |-> word, sentiment |-> "positive", weight |-> [num |-> 500],
       language |-> "tl", isPhrase |-> TRUE],
      [word |-> word, sentiment |-> "negative", weight |-> [num |-> 1500],
       language |-> "tl"],
      [word |-> word, sentiment |-> "negative", weight |-> [num |-> 500],
       language |-> "tl", isPhrase |-> TRUE],
      [word |-> word, sentiment |-> "neutral", weight |-> [num |-> 1000],
       language |-> "tl"],
      [word |-> word, sentiment |-> "positive", weight |-> [num |-> 2000],
       language |-> "en"],
      [word |-> word, sentiment |-> "negative", weight |-> [num |-> 1500]],
      [word |-> word, sentiment |-> "positive", language |-> "tl"],
      [word |-> word, weight |-> [num |-> 1000], language |-> "tl"],
      [word |-> word, sentiment |-> "positive", weight |-> [str |-> "abc"],
       language |-> "tl"] }

ItemPool == UNION {ItemsFor(word) : word \in LexiconTerms}

Lexicons == SeqsOver(ItemPool, MaxItems)

NextLexicon == \E lexicon \in Lexicons : NewAnalyzer(lexicon)

SpecLexicon == Init /\ [][NextLexicon]_vars

-----------------------------------------------------------------------------
(* SpecEmoji: remove_emojis is called on short strings.                    *)

MaxEmojiLen == 4

\* the characters of the ASCII emoticons, a pictograph of the emoticon
\* tables, a pictograph of neither table, a letter and a blank
EmojiAlphabet == {":", "-", ")", "(", "D", "@", "~", "a", " "}

EmojiTexts == StringsOver(EmojiAlphabet, MaxEmojiLen)

NextEmoji ==
    \/ NewAnalyzer(<<>>)
    \/ \E text \in EmojiTexts : CallRemoveEmojis(text)

SpecEmoji == Init /\ [][NextEmoji]_vars

-----------------------------------------------------------------------------
(* SpecSplit: split_comment_by_sentiment is called on texts of several     *)
(* sentences, with and without sentence breaks.                            *)

MaxSplitWords == 3

SplitVocabulary == {"maganda", "noisy", "bagsak", "event", "maporma"}

\* the words joined by a blank or by a sentence break, then any ending
SplitTexts ==
    {t \o ending : t \in TextsOf(SplitVocabulary, {" ", ". ", "! ", "?"}, MaxSplitWords),
                   ending \in {"", ".", "?!"}}
    \cup {"...", "?"}

NextSplit ==
    \/ \E lexicon \in SessionLexicons : NewAnalyzer(lexicon)
    \/ \E text \in SplitTexts : CallSplitComment(text)

SpecSplit == Init /\ [][NextSplit]_vars

-----------------------------------------------------------------------------
(* SpecClassifier: the lexical scorer is called on texts that bring each   *)
(* rule of the classification (lines 435-449) into play.                   *)

MaxClassifierWords == 2

\* words of weight 0.7, 0.6, 1.0 and 1.5, a word that holds the neutral
\* indicator 'ok' inside it, a neutral indicator, a diminisher, a contrast
\* marker, a word of no table and an emoticon
ClassifierVocabulary ==
    {"late", "noisy", "maganda", "bagsak", "booking", "okay", "medyo", "pero",
     "event", ":)"}

ClassifierTexts == TextsOf(ClassifierVocabulary, {" ", ". "}, MaxClassifierWords)

NextClassifier ==
    \/ NewAnalyzer(<<>>)
    \/ \E text \in ClassifierTexts : CallAnalyzeTagalog(text)

SpecClassifier == Init /\ [][NextClassifier]_vars

-----------------------------------------------------------------------------
(* SpecSession: several calls, one after the other, on one analyzer.       *)

MaxCalls == 3

SessionTexts ==
    {"", "maganda", "hindi maganda. bagsak", "maporma", "event pero", "sige :)"}

SessionLangOutcomes == {Raises, LangReturned("en", 900), LangReturned("tl", 900)}

SessionBlobOutcomes == {Raises, BlobReturned(600, 500)}

SessionCalls ==
    {[op |-> "analyze_sentiment", text |-> text, lang_outcome |-> lang_outcome,
      blob_outcome |-> blob_outcome, nth |-> nth] :
        text \in SessionTexts, lang_outcome \in SessionLangOutcomes,
        blob_outcome \in SessionBlobOutcomes, nth \in 1..MaxCalls}
    \cup {[op |-> op, text |-> text, nth |-> nth] :
            op \in {"analyze_sentence_sentiment", "split_comment_by_sentiment"},
            text \in SessionTexts, nth \in 1..MaxCalls}

NextSession ==
    \/ \E lexicon \in SessionLexicons : NewAnalyzer(lexicon)
    \/ \E c \in SessionCalls : SessionCall(c)

SpecSession == Init /\ [][NextSession]_vars

-----------------------------------------------------------------------------
(* SpecReport: generate_report is called on a batch of feedback items.     *)

MaxBatch == 2

BothAnswer == [lang_outcome |-> LangReturned("en", 900),
               blob_outcome |-> BlobReturned(600, 500)]

BothRaise == [lang_outcome |-> Raises, blob_outcome |-> Raises]

\* an item and what the collaborators do while it is analysed: strings
\* (one of them with the zero-weight custom word, one blank), a number and
\* None
ReportItems ==
    {[feedback |-> [str |-> s], outcome |-> outcome] :
        s \in {"maganda", "bagsak", "bagsak. maporma"}, outcome \in {BothAnswer, BothRaise}}
    \cup {[feedback |-> feedback, outcome |-> BothAnswer] :
            feedback \in {[str |-> " "], [num |-> 5], [none |-> TRUE]}}

Batches == SeqsOver(ReportItems, MaxBatch)

NextReport ==
    \E batch \in Batches, lexicon \in SessionLexicons :
        CallGenerateReport([k \in 1..Len(batch) |-> batch[k].feedback], lexicon,
                           [k \in 1..Len(batch) |-> batch[k].outcome])

SpecReport == Init /\ [][NextReport]_vars

-----------------------------------------------------------------------------
(* SpecNegation: the lexical scorer is called on texts with a negation     *)
(* marker at different distances from a lexicon word.                      *)

MaxNegationWords == 4

\* a negation marker, a positive and a negative lexicon word, a short word
\* and a word of twenty letters of no table
NegationVocabulary ==
    {"hindi", "maganda", "bagsak", "ang", "internationalization"}

NegationTexts == TextsOf(NegationVocabulary, {" "}, MaxNegationWords)

NextNegation ==
    \/ NewAnalyzer(<<>>)
    \/ \E text \in NegationTexts : CallAnalyzeTagalog(text)

SpecNegation == Init /\ [][NextNegation]_vars

-----------------------------------------------------------------------------
(* SpecSentence: analyze_sentence_sentiment is called on one sentence.     *)

MaxSentenceWords == 3

\* lexicon words, an intensifier, a diminisher, a negation marker, a word
\* that begins a lexicon phrase and a word of no table
SentenceVocabulary ==
    {"maganda", "bagsak", "sobrang", "medyo", "hindi", "napakaganda", "event"}

SentenceTexts == TextsOf(SentenceVocabulary, {" "}, MaxSentenceWords)

NextSentence ==
    \/ NewAnalyzer(<<>>)
    \/ \E sentence \in SentenceTexts :
           SessionCall([op |-> "analyze_sentence_sentiment", text |-> sentence,
                        nth |-> 1])

SpecSentence == Init /\ [][NextSentence]_vars

-----------------------------------------------------------------------------
(* SpecStem: the lexical scorer is called on words whose stem is a word of *)
(* a table, with and without a custom entry for the unstemmed word.        *)

MaxStemWords == 2

\* 'pagmaganda' is given as a negative word; its stem 'maganda' is a
\* positive word of the default table
NegativeOverPositiveStem ==
    << [word |-> "pagmaganda", sentiment |-> "negative", weight |-> [num |-> 1200],
        language |-> "tl", isPhrase |-> FALSE] >>

\* 'pagbagsak' is given as a positive word; its stem 'bagsak' is a negative
\* word of the default table
PositiveOverNegativeStem ==
    << [word |-> "pagbagsak", sentiment |-> "positive", weight |-> [num |-> 1200],
        language |-> "tl", isPhrase |-> FALSE] >>

StemLexicons == {<<>>, NegativeOverPositiveStem, PositiveOverNegativeStem}

StemVocabulary ==
    {"pagmaganda", "pagbagsak", "maganda", "bagsak", "mabuti", "hindi", "event"}

StemTexts == TextsOf(StemVocabulary, {" "}, MaxStemWords)

NextStem ==
    \/ \E lexicon \in StemLexicons : NewAnalyzer(lexicon)
    \/ \E text \in StemTexts : CallAnalyzeTagalog(text)

SpecStem == Init /\ [][NextStem]_vars

-----------------------------------------------------------------------------
(* SpecDispatch: analyze_sentiment is called with language signals of each *)
(* language, reliable and not.                                             *)

MaxDispatchWords == 2

DispatchVocabulary == {"maganda", "bagsak", "event", "pero"}

DispatchTexts == {" "} \cup TextsOf(DispatchVocabulary, {" "}, MaxDispatchWords)

\* langid.classify raises, or gives English, Tagalog or another language
\* with a confidence above or below 0.7
DispatchLangOutcomes ==
    {Raises} \cup {LangReturned(lang, confidence) :
                      lang \in {"en", "tl", "es"}, confidence \in {900, 500}}

DispatchBlobOutcomes == {Raises, BlobReturned(600, 500)}

NextDispatch ==
    \/ NewAnalyzer(<<>>)
    \/ \E text \in DispatchTexts, lang_outcome \in DispatchLangOutcomes,
          blob_outcome \in DispatchBlobOutcomes :
           CallAnalyzeSentiment(text, lang_outcome, blob_outcome)

SpecDispatch == Init /\ [][NextDispatch]_vars

-----------------------------------------------------------------------------
(* Properties.  In a state where call.op is the name of a method, call     *)
(* holds the arguments of the call and ret what it returned.               *)

Labels == {"positive", "negative", "neutral"}

\* C1: analyze_sentiment on an empty or whitespace-only text returns exactly
\* sentiment neutral, confidence 0.0, method 'empty_text'; on a non-blank
\* text that remove_emojis turns into the empty string it returns sentiment
\* neutral, confidence 0.0, method 'empty_after_emoji_removal'; in both cases
\* the call invokes neither langid nor any scorer.
C1_EmptyTextIsNeutral ==
    call.op = "analyze_sentiment" =>
        /\ Strip(call.text) = "" =>
               /\ ret.result = [sentiment |-> "neutral", confidence |-> 0,
                                method |-> "empty_text"]
               /\ ret.calls = <<>>
        /\ (Strip(call.text) # "" /\ remove_emojis(call.text) = "") =>
               /\ ret.result.sentiment = "neutral"
               /\ ret.result.confidence = 0
               /\ ret.result.method = "empty_after_emoji_removal"
               /\ ret.calls = <<>>

\* C1's case: a text of an emoticon and a pictograph was analyzed, with a
\* language identifier that would have answered
C1_Witness ==
    /\ call.op = "analyze_sentiment"
    /\ call.text = ":) @"
    /\ ~call.lang_outcome.raised
    /\ ret.result.method = "empty_after_emoji_removal"
    /\ ret.calls = <<>>

\* the method tags the code writes
Methods ==
    {"empty_text", "empty_after_emoji_removal", "textblob_english_enhanced",
     "tagalog_lexicon_enhanced", "mixed_contrast_override",
     "blended_mixed_confidence", "fallback"}

\* C2: whatever the text, the language signal and the outcome of TextBlob,
\* the dict analyze_sentiment returns has a 'sentiment' in {positive,
\* negative, neutral}, a 'confidence' between 0.0 and 1.0 and a 'method' tag,
\* on every path: English, lexical, contrast override, blended, fallback,
\* empty.
C2_ResultIsWellFormed ==
    call.op = "analyze_sentiment" =>
        /\ "sentiment" \in DOMAIN ret.result
        /\ ret.result.sentiment \in Labels
        /\ "confidence" \in DOMAIN ret.result
        /\ ret.result.confidence >= 0
        /\ ret.result.confidence <= 1000
        /\ "method" \in DOMAIN ret.result
        /\ ret.result.method \in Methods

\* C2's failing case: TextBlob raised on the English path and the fallback
\* dict that came back has no 'confidence' key
C2_FallbackWithoutConfidence ==
    /\ call.op = "analyze_sentiment"
    /\ call.text = "event"
    /\ call.lang_outcome = LangReturned("en", 900)
    /\ call.blob_outcome = Raises
    /\ ret.result.method = "fallback"
    /\ "confidence" \notin DOMAIN ret.result

\* C3: whenever the sentence breakdown analyze_tagalog_sentiment makes of a
\* text has a sentence of balance above 0.5 and a sentence of balance below
\* -0.5, the sentiment it returns is neutral, whatever positive_score,
\* negative_score and total_score are.
C3_MixedSentencesAreNeutral ==
    (/\ call.op = "analyze_tagalog_sentiment"
     /\ "sentence_analysis" \in DOMAIN ret
     /\ ret.sentence_analysis.positive_sentences >= 1
     /\ ret.sentence_analysis.negative_sentences >= 1)
    => ret.sentiment = "neutral"

\* C3's failing case: one sentence of balance 2.0 and one of balance -0.6,
\* and the text is classified positive
C3_MixedSentencesPositive ==
    /\ call.op = "analyze_tagalog_sentiment"
    /\ call.text = "maganda maganda. noisy"
    /\ ret.sentence_analysis.positive_sentences = 1
    /\ ret.sentence_analysis.negative_sentences = 1
    /\ ret.positive_score = 2000
    /\ ret.negative_score = 600
    /\ ret.sentiment = "positive"

\* the call was an analyze_sentiment that went through analyze_mixed_sentiment
TookBlendingPath ==
    /\ call.op = "analyze_sentiment"
    /\ "analyze_mixed_sentiment" \in SeqToSet(ret.calls)

\* the text analyze_mixed_sentiment was given
BlendedText == ret.result.emoji_removal.cleaned_text

\* what the lexical scorer returns for that text
LexicalResultOfCall == analyze_tagalog_sentiment(analyzer, BlendedText)

\* C4's precondition: the blending path handled a text that contains a
\* contrast marker and whose lexical result has a nonzero positive_score or
\* negative_score
ContrastCase ==
    /\ TookBlendingPath
    /\ \E k \in 1..Len(contrast_words) : Contains(Lower(BlendedText), contrast_words[k])
    /\ \/ Get(LexicalResultOfCall, "positive_score", 0) > 0
       \/ Get(LexicalResultOfCall, "negative_score", 0) > 0

\* C4 as stated: in the contrast case the result is neutral with confidence
\* 0.8, also when the lexical |total_score| is 2.0 or more.
C4_ContrastAlwaysOverrides ==
    ContrastCase =>
        /\ ret.result.sentiment = "neutral"
        /\ ret.result.confidence = 800

\* C4 as the code has it: in the contrast case, (a) when the lexical
\* |total_score| is 2.0 or more the lexical result is returned as it is,
\* whatever its label; (b) otherwise the label is neutral; (c) otherwise, and
\* unless the text has a neutral indicator and the lexical label is neutral
\* (the lexical result is then returned), the result has confidence 0.8 and
\* method 'mixed_contrast_override'.
C4_ContrastOverridesBelowTwo ==
    ContrastCase =>
        LET lexical == LexicalResultOfCall
            strong == Abs(lexical.total_score) >= 2000
            trusted_neutral ==
                /\ NeutralCount(analyzer, Lower(BlendedText)) >= 1
                /\ lexical.sentiment = "neutral"
        IN  /\ strong =>
                /\ ret.result.sentiment = lexical.sentiment
                /\ ret.result.confidence = lexical.confidence
                /\ ret.result.method = "tagalog_lexicon_enhanced"
            /\ ~strong => ret.result.sentiment = "neutral"
            /\ (~strong /\ ~trusted_neutral) =>
                /\ ret.result.confidence = 800
                /\ ret.result.method = "mixed_contrast_override"

\* C4's case: 'maganda pero' has lexical total_score 1.0, which the lexical
\* scorer alone labels positive, and the blending path returned the override
C4_Witness ==
    /\ ContrastCase
    /\ call.text = "maganda pero"
    /\ LexicalResultOfCall.sentiment = "positive"
    /\ ret.result.sentiment = "neutral"
    /\ ret.result.method = "mixed_contrast_override"

\* the character spans of the matches that analyze_tagalog_sentiment scored
\* in the text of the call: the phrases, then the single words
ScoredSpans ==
    LET scores == LexicalScores(analyzer, call.text)
    IN  scores.used_phrase_ranges \o scores.scored_words

\* C5: in analyze_tagalog_sentiment no two scored matches (phrases of either
\* polarity, single words) share a character of the text, and a text that is
\* exactly one lexicon phrase scores that phrase's 2.5 and nothing else.
C5_ScoredSpansAreDisjoint ==
    call.op = "analyze_tagalog_sentiment" =>
        /\ \A i, j \in 1..Len(ScoredSpans) :
               i < j => \/ ScoredSpans[i].end <= ScoredSpans[j].start
                        \/ ScoredSpans[j].end <= ScoredSpans[i].start
        /\ (InList(call.text, analyzer.positive_phrases)
            \/ InList(call.text, analyzer.negative_phrases))
           => ret.positive_score + ret.negative_score = 2500

\* C5's failing case: 'bad experience' claimed characters 5 to 19 and
\* 'very bad', characters 0 to 8, was scored as well
C5_OverlappingPhrasesBothScored ==
    /\ call.op = "analyze_tagalog_sentiment"
    /\ call.text = "very bad experience"
    /\ ScoredSpans = << [start |-> 5, end |-> 19], [start |-> 0, end |-> 8] >>
    /\ ret.negative_score = 5000

\* the score magnitude the lexical scorer gives a text
Magnitude(result) == Abs(result.total_score)

\* the call scored the text 'm w' for a marker m and a single-word lexicon
\* term w of the default tables
ScaledCall(m, w) ==
    /\ call.op = "analyze_tagalog_sentiment"
    /\ call.text = m \o " " \o w

\* C6: for every single-word lexicon term w and every marker m, the score
\* magnitude of 'm w' is strictly greater than that of 'w' alone when m is
\* an intensifier and strictly lower when m is a diminisher.
C6_MarkersScaleEveryWord ==
    \A w \in LexiconWords :
        /\ \A k \in 1..Len(intensifiers) :
               ScaledCall(intensifiers[k], w) =>
                   Magnitude(ret) > Magnitude(analyze_tagalog_sentiment(analyzer, w))
        /\ \A k \in 1..Len(diminishers) :
               ScaledCall(diminishers[k], w) =>
                   Magnitude(ret) < Magnitude(analyze_tagalog_sentiment(analyzer, w))

\* C6's failing case: after the diminisher 'a bit' the word scores what it
\* scores alone
C6_TwoWordDiminisherIgnored ==
    /\ ScaledCall("a bit", "maganda")
    /\ ret.positive_score = 1000
    /\ analyze_tagalog_sentiment(analyzer, "maganda").positive_score = 1000

\* analyze_sentiment invoked langid and langid raised
LangidFailed == call.op = "analyze_sentiment" /\ ret.calls # <<>> /\ call.lang_outcome.raised

\* analyze_sentiment invoked TextBlob and TextBlob raised
TextBlobFailed ==
    /\ call.op = "analyze_sentiment"
    /\ "TextBlob" \in SeqToSet(ret.calls)
    /\ call.blob_outcome.raised

\* the call took the English-only path (line 586)
TookEnglishPath ==
    /\ call.op = "analyze_sentiment"
    /\ "analyze_mixed_sentiment" \notin SeqToSet(ret.calls)
    /\ "analyze_english_sentiment" \in SeqToSet(ret.calls)

\* C7 as stated: when langid or TextBlob raises during analyze_sentiment, a
\* result is returned and it is neutral with method 'fallback'.
C7_FailureGivesFallback ==
    (LangidFailed \/ TextBlobFailed) =>
        /\ "sentiment" \in DOMAIN ret.result
        /\ ret.result.sentiment = "neutral"
        /\ ret.result.method = "fallback"

\* C7 as the code has it: when langid or TextBlob raises during
\* analyze_sentiment a result with a label is always returned; (a) when
\* TextBlob raises on the English-only path the result is neutral with method
\* 'fallback'; (b) when langid raises, the language is reported as 'unknown',
\* not reliable, and the text takes the blending path; (c) on the blending
\* path with a failed TextBlob the result is the contrast override or the
\* lexical scorer's own result, so its method is 'fallback' only when the
\* lexical scorer itself failed.
C7_FailureIsContained ==
    (LangidFailed \/ TextBlobFailed) =>
        /\ "sentiment" \in DOMAIN ret.result
        /\ ret.result.sentiment \in Labels
        /\ "method" \in DOMAIN ret.result
        /\ (TextBlobFailed /\ TookEnglishPath) =>
               /\ ret.result.sentiment = "neutral"
               /\ ret.result.method = "fallback"
        /\ LangidFailed =>
               /\ ret.result.language.language = "unknown"
               /\ ~ret.result.language.is_reliable
               /\ TookBlendingPath
        /\ (TextBlobFailed /\ TookBlendingPath) =>
               \/ ret.result.method = "mixed_contrast_override"
               \/ /\ ret.result.method = LexicalResultOfCall.method
                  /\ ret.result.sentiment = LexicalResultOfCall.sentiment

\* C7's case: TextBlob raised on the English-only path and the neutral
\* fallback came back
C7_Witness ==
    /\ TextBlobFailed
    /\ TookEnglishPath
    /\ call.text = "event"
    /\ ret.result.sentiment = "neutral"
    /\ ret.result.method = "fallback"

\* an entry the claims call well-formed: it has a sentiment and a weight that
\* is a number
WellFormed(item) ==
    /\ "sentiment" \in DOMAIN item
    /\ "weight" \in DOMAIN item
    /\ "num" \in DOMAIN item.weight

\* C8: constructing an analyzer with a custom lexicon never fails, and every
\* entry without a weight, without a sentiment or with a weight that is not a
\* number is skipped: the tables end up as the well-formed entries alone
\* would leave them.
C8_MalformedEntriesAreSkipped ==
    phase # "new" =>
        /\ phase = "ready"
        /\ analyzer = Construct(SelectSeq(custom_lexicon, WellFormed)).self

\* C8's failing case: the one entry has a weight that is not a number, and
\* the constructor raised
C8_ConstructorRaised ==
    /\ phase = "construct_raised"
    /\ custom_lexicon = << [word |-> "sulit", sentiment |-> "positive",
                            weight |-> [str |-> "abc"], language |-> "tl"] >>

\* the fields of an entry as load_custom_lexicon reads them
EntryTerm(item) == Lower(Get(item, "word", ""))

EntrySentiment(item) == Get(item, "sentiment", "None")

EntryLanguage(item) == Get(item, "language", "en")

EntryWeight(item) == IF "weight" \in DOMAIN item THEN item.weight.num ELSE 1000

\* the table and the phrase list of a polarity
TableOf(sentiment) ==
    IF sentiment = "positive" THEN analyzer.tagalog_positive
    ELSE analyzer.tagalog_negative

PhrasesOf(sentiment) ==
    IF sentiment = "positive" THEN analyzer.positive_phrases
    ELSE analyzer.negative_phrases

\* the last entry of custom_lexicon among those of indices
LastOf(indices) == custom_lexicon[CHOOSE j \in indices : \A k \in indices : k <= j]

\* C9 as stated: after construction, every well-formed entry with sentiment
\* positive or negative and language 'tl' or 'en' has its term in the table
\* of its polarity, with the weight of the last entry given for that (term,
\* language), and in the phrase list of its polarity when marked isPhrase.
C9_LastWriteWinsPerLanguage ==
    phase = "ready" =>
        \A i \in 1..Len(custom_lexicon) :
            LET item == custom_lexicon[i]
                same == {j \in 1..Len(custom_lexicon) :
                            /\ EntryTerm(custom_lexicon[j]) = EntryTerm(item)
                            /\ EntryLanguage(custom_lexicon[j]) = EntryLanguage(item)}
            IN  (/\ WellFormed(item)
                 /\ EntrySentiment(item) \in {"positive", "negative"}
                 /\ "language" \in DOMAIN item
                 /\ item.language \in {"tl", "en"})
                => /\ EntryTerm(item) \in DOMAIN TableOf(EntrySentiment(item))
                   /\ Abs(TableOf(EntrySentiment(item))[EntryTerm(item)])
                        = EntryWeight(LastOf(same))
                   /\ Get(item, "isPhrase", FALSE)
                        => InList(EntryTerm(item), PhrasesOf(EntrySentiment(item)))

\* C9 as the code has it: after a construction that returned, every entry
\* with sentiment positive or negative and language 'tl' has its lower-cased
\* term in the table of its polarity, with the weight (negated in the
\* negative table; 1.0 for an entry that has none) of the last 'tl' entry
\* given for that (term, sentiment), and in the phrase list of its polarity
\* when marked isPhrase; and a lexicon none of whose entries has language
\* 'tl' leaves all tables at their defaults.
C9_LastWriteWinsForTagalog ==
    phase = "ready" =>
        /\ \A i \in 1..Len(custom_lexicon) :
               LET item == custom_lexicon[i]
                   same == {j \in 1..Len(custom_lexicon) :
                               /\ EntryTerm(custom_lexicon[j]) = EntryTerm(item)
                               /\ EntrySentiment(custom_lexicon[j]) = EntrySentiment(item)
                               /\ EntryLanguage(custom_lexicon[j]) = "tl"}
               IN  (/\ EntrySentiment(item) \in {"positive", "negative"}
                    /\ EntryLanguage(item) = "tl")
                   => /\ EntryTerm(item) \in DOMAIN TableOf(EntrySentiment(item))
                      /\ TableOf(EntrySentiment(item))[EntryTerm(item)]
                           = IF EntrySentiment(item) = "positive"
                             THEN EntryWeight(LastOf(same))
                             ELSE -EntryWeight(LastOf(same))
                      /\ Get(item, "isPhrase", FALSE)
                           => InList(EntryTerm(item), PhrasesOf(EntrySentiment(item)))
        /\ (\A i \in 1..Len(custom_lexicon) : EntryLanguage(custom_lexicon[i]) # "tl")
           => analyzer = DefaultSelf

\* C9's case: two 'tl' entries for the same term and sentiment, the second a
\* phrase with another weight, and the table holds the second weight
C9_Witness ==
    /\ phase = "ready"
    /\ custom_lexicon =
           << [word |-> "Bongga", sentiment |-> "positive",
               weight |-> [num |-> 2000], language |-> "tl"],
              [word |-> "Bongga", sentiment |-> "positive",
               weight |-> [num |-> 500], language |-> "tl", isPhrase |-> TRUE] >>
    /\ analyzer.tagalog_positive["bongga"] = 500
    /\ InList("bongga", analyzer.positive_phrases)

\* C10: remove_emojis is idempotent: applied to its own result it returns
\* that result unchanged.
C10_RemoveEmojisIsIdempotent ==
    call.op = "remove_emojis" => remove_emojis(ret) = ret

\* C10's failing case: removing ':)' from '::))' leaves ':)', which a second
\* pass removes
C10_EmoticonLeftBehind ==
    /\ call.op = "remove_emojis"
    /\ call.text = "::))"
    /\ ret = ":)"
    /\ remove_emojis(ret) = ""

\* C11: for every text and every analyzer, custom lexicon included, the
\* sentence_counts split_comment_by_sentiment returns add up to the number
\* of non-empty sentences that splitting the text on '.', '!' and '?' gives;
\* a text with no sentence break counts as one sentence.
C11_SentenceCountsAddUp ==
    call.op = "split_comment_by_sentiment" =>
        /\ ret.sentence_counts.positive + ret.sentence_counts.negative
             + ret.sentence_counts.neutral
           = Len(SplitSentences(call.text))
        /\ (~Contains(call.text, ".") /\ ~Contains(call.text, "!")
            /\ ~Contains(call.text, "?") /\ Strip(call.text) # "")
           => ret.sentence_counts.positive + ret.sentence_counts.negative
                + ret.sentence_counts.neutral = 1

\* C11's failing case: the second of two sentences holds a custom word of
\* weight 0.0, the scoring of that sentence raised and all counts are 0
C11_CountsLostOnScoringError ==
    /\ call.op = "split_comment_by_sentiment"
    /\ custom_lexicon = ZeroWeightLexicon
    /\ call.text = "maganda. maporma"
    /\ Len(SplitSentences(call.text)) = 2
    /\ ret.sentence_counts = [positive |-> 0, negative |-> 0, neutral |-> 0]
    /\ "error" \in DOMAIN ret

\* the text of the call has a neutral indicator as a token or phrase: an
\* occurrence that begins and ends at a word boundary
HasIndicatorToken ==
    LET text_lower == Lower(call.text)
    IN  \E k \in 1..Len(analyzer.neutral_indicators) :
            \E p \in 0..(Len(text_lower) - Len(analyzer.neutral_indicators[k])) :
                PhraseMatchesAt(text_lower, analyzer.neutral_indicators[k], p)

\* C12: analyze_tagalog_sentiment returns neutral with confidence 0.75
\* exactly when the text has a neutral indicator as a token or phrase and
\* positive_score and negative_score are both below 1.0.
C12_NeutralIndicatorRule ==
    (call.op = "analyze_tagalog_sentiment" /\ "confidence" \in DOMAIN ret) =>
        ((ret.sentiment = "neutral" /\ ret.confidence = 750)
         <=> (/\ HasIndicatorToken
              /\ ret.positive_score < 1000
              /\ ret.negative_score < 1000))

\* C12's failing case: 'late booking' has no neutral indicator as a token,
\* its negative_score 0.7 alone gives negative, and rule 1 returned neutral
\* because 'ok' is inside 'booking'
C12_IndicatorInsideAWord ==
    /\ call.op = "analyze_tagalog_sentiment"
    /\ call.text = "late booking"
    /\ ~HasIndicatorToken
    /\ ret.negative_score = 700
    /\ ret.sentiment = "neutral"
    /\ ret.confidence = 750


\* C13's precondition on a finished call of the lexical scorer: rule 1 as
\* C12 states it does not apply, and the mixed/constructive rule (lines
\* 440-441) does not apply
NoEarlierRuleApplies ==
    /\ call.op = "analyze_tagalog_sentiment"
    /\ "confidence" \in DOMAIN ret
    /\ ~(/\ HasIndicatorToken
         /\ ret.positive_score < 1000
         /\ ret.negative_score < 1000)
    /\ ~(/\ \/ /\ ret.sentence_analysis.positive_sentences > 0
               /\ ret.sentence_analysis.negative_sentences > 0
            \/ ret.sentence_analysis.constructive_criticism > 0
         /\ \/ ret.sentence_analysis.constructive_criticism >= 2
            \/ ret.negative_score >= 1000)

\* min(0.6 + |total|/10, 0.95) for the total of the returned result
ThresholdConfidence == Min(600 + Abs(ret.total_score) \div 10, 950)

\* C13: when neither the neutral-indicator rule nor the mixed/constructive
\* rule applies, total >= 0.7 gives positive and total <= -0.7 gives negative,
\* each with confidence min(0.6 + |total|/10, 0.95) (compared to the two
\* decimals the result carries), anything between gives neutral with
\* confidence 0.65; a text with no polarity term and no neutral indicator is
\* neutral.
C13_TotalAloneDecides ==
    /\ NoEarlierRuleApplies =>
          IF ret.total_score >= 700
          THEN /\ ret.sentiment = "positive"
               /\ Abs(ret.confidence - ThresholdConfidence) <= 5
          ELSE IF ret.total_score <= -700
          THEN /\ ret.sentiment = "negative"
               /\ Abs(ret.confidence - ThresholdConfidence) <= 5
          ELSE /\ ret.sentiment = "neutral"
               /\ ret.confidence = 650
    /\ (/\ call.op = "analyze_tagalog_sentiment"
        /\ "confidence" \in DOMAIN ret
        /\ ret.positive_score = 0 /\ ret.negative_score = 0
        /\ ~HasIndicatorToken)
       => ret.sentiment = "neutral"

\* C13's failing case: no rule before the thresholds applies to
\* 'late booking' as the rules are stated, its total is -0.7, and the result
\* is neutral with confidence 0.75
C13_ThresholdNotReached ==
    /\ NoEarlierRuleApplies
    /\ call.text = "late booking"
    /\ ret.total_score = -700
    /\ ret.sentiment = "neutral"
    /\ ret.confidence = 750


WithoutItem(list, k) ==
    [j \in 1..(Len(list) - 1) |-> IF j < k THEN list[j] ELSE list[j + 1]]

\* the analysis of item k of the batch fails: the item is not a string, a
\* collaborator raises, or a scorer raises on its text
ItemFails(k) ==
    LET feedback == call.feedbacks[k]
    IN  \/ "str" \notin DOMAIN feedback
        \/ /\ Strip(feedback.str) # ""
           /\ \/ call.outcomes[k].lang_outcome = Raises
              \/ call.outcomes[k].blob_outcome = Raises
              \/ "error" \in DOMAIN split_comment_by_sentiment(feedback.str, analyzer)

\* short is long with at most one element left out
IsRestOf(short, long) ==
    \/ short = long
    \/ \E j \in 1..Len(long) : short = WithoutItem(long, j)

\* C15: in generate_report a failure while analysing one item of the batch
\* does not keep the other items from being analysed and reported: the
\* report succeeds whenever it succeeds without the failing item, and the
\* entries of the other items are those of the report without it.
C15_BatchIsolation ==
    call.op = "generate_report" =>
        \A k \in 1..Len(call.feedbacks) :
            ItemFails(k) =>
                LET without == generate_report(WithoutItem(call.feedbacks, k),
                                               custom_lexicon,
                                               WithoutItem(call.outcomes, k))
                IN  without.success =>
                        /\ ret.success
                        /\ IsRestOf(without.analyzed_feedbacks,
                                    ret.analyzed_feedbacks)

\* C15's failing case: the batch ['maganda', 5] gives no report at all,
\* where ['maganda'] alone is reported
C15_NumberFailsTheBatch ==
    /\ call.op = "generate_report"
    /\ custom_lexicon = <<>>
    /\ call.feedbacks = <<[str |-> "maganda"], [num |-> 5]>>
    /\ call.outcomes = <<BothAnswer, BothAnswer>>
    /\ ItemFails(2)
    /\ ~ret.success
    /\ generate_report(<<[str |-> "maganda"]>>, <<>>, <<BothAnswer>>).success


\* a negation marker is among the at most two tokens before token i
NegatedByTokens(words_data, i) ==
    \E j \in Max(1, i - 2)..(i - 1) : InList(words_data[j].word, negations)

\* the word-level scores of the tokens from i on when a word is flipped
\* exactly if NegatedByTokens
RECURSIVE TokenWindowLoop(_, _, _, _)
TokenWindowLoop(self, words_data, i, acc) ==
    IF i > Len(words_data) THEN acc
    ELSE Bind(WordLookup(self, words_data[i].word), LAMBDA found :
            IF found.raised \/ found.table = "none"
            THEN TokenWindowLoop(self, words_data, i + 1, acc)
            ELSE Bind(Times(found.value, WordMultiplier(words_data, i)),
                      LAMBDA score :
                 Bind(IF (found.table = "positive") # NegatedByTokens(words_data, i)
                      THEN [acc EXCEPT !.positive_score = @ + score]
                      ELSE [acc EXCEPT !.negative_score = @ + score],
                      LAMBDA next :
                     TokenWindowLoop(self, words_data, i + 1, next))))

TokenWindowScores ==
    TokenWindowLoop(analyzer, WordMatches(Lower(call.text)), 1,
                    [positive_score |-> 0, negative_score |-> 0])

\* the call scored single words only: no phrase matched, no emoticon
WordsOnlyCall ==
    /\ call.op = "analyze_tagalog_sentiment"
    /\ "positive_score" \in DOMAIN ret
    /\ LexicalScores(analyzer, call.text).used_phrase_ranges = <<>>
    /\ EmoticonScore(call.text) = 0

\* C16: in analyze_tagalog_sentiment a matched lexicon word goes to the
\* opposite accumulator exactly when a negation marker is among the at most
\* two tokens before it: a marker three or more tokens before does not flip
\* the word, a marker within the two preceding tokens always does.
C16_NegationWindowIsTwoTokens ==
    WordsOnlyCall =>
        /\ ret.positive_score = Round2(TokenWindowScores.positive_score)
        /\ ret.negative_score = Round2(TokenWindowScores.negative_score)

\* C16's failing case: 'hindi' is three tokens before 'maganda' and the
\* word is flipped all the same
C16_FlippedFromThreeTokensAway ==
    /\ WordsOnlyCall
    /\ call.text = "hindi ang ang maganda"
    /\ TokenWindowScores.positive_score = 1000
    /\ ret.positive_score = 0
    /\ ret.negative_score = 1000


\* the aggregate lexical scorer (phrase loops and word loop) run on the
\* sentence of the call alone
AggregateOnSentence == LexicalScores(analyzer, call.text)

\* C17: the positive score, negative score and balance that
\* analyze_sentence_sentiment reports for a sentence are the positive score,
\* the negative score and their difference that the aggregate lexical scorer
\* computes on that sentence alone.
C17_SentenceScoresAreAggregateScores ==
    (call.op = "analyze_sentence_sentiment" /\ ~ret.raised) =>
        /\ ret.positive = AggregateOnSentence.positive_score
        /\ ret.negative = AggregateOnSentence.negative_score
        /\ ret.balance = AggregateOnSentence.positive_score
                           - AggregateOnSentence.negative_score

\* C17's failing case: the diminisher halves 'maganda' in the aggregate
\* scorer and leaves it whole in the sentence scorer
C17_DiminisherIgnoredInSentence ==
    /\ call.op = "analyze_sentence_sentiment"
    /\ call.text = "medyo maganda"
    /\ ret.positive = 1000
    /\ ret.balance = 1000
    /\ AggregateOnSentence.positive_score = 500


\* the lookup of a token that uses the raw form if it is in either polarity
\* table and only otherwise the stem
RawFirstLookup(self, word) ==
    LET stemmed == stem_tagalog(word)
    IN  IF word \in DOMAIN self.tagalog_positive
        THEN [table |-> "positive", value |-> self.tagalog_positive[word]]
        ELSE IF word \in DOMAIN self.tagalog_negative
        THEN [table |-> "negative", value |-> Abs(self.tagalog_negative[word])]
        ELSE IF stemmed \in DOMAIN self.tagalog_positive
        THEN [table |-> "positive", value |-> self.tagalog_positive[stemmed]]
        ELSE IF stemmed \in DOMAIN self.tagalog_negative
        THEN [table |-> "negative", value |-> Abs(self.tagalog_negative[stemmed])]
        ELSE [table |-> "none"]

\* the word loop (lines 376-414) from token i on with RawFirstLookup as its
\* lookup, on the accumulators the phrase loops left
RECURSIVE RawFirstLoop(_, _, _, _, _)
RawFirstLoop(self, text_lower, words_data, i, acc) ==
    IF i > Len(words_data) THEN acc
    ELSE IF StartInUsedRange(words_data[i].start, acc.used_phrase_ranges)
    THEN RawFirstLoop(self, text_lower, words_data, i + 1, acc)
    ELSE Bind(RawFirstLookup(self, words_data[i].word), LAMBDA found :
            IF found.table = "none"
            THEN RawFirstLoop(self, text_lower, words_data, i + 1, acc)
            ELSE Bind(Times(found.value, WordMultiplier(words_data, i)),
                      LAMBDA score :
                 Bind(IF (found.table = "positive")
                         # is_negated_context(text_lower, words_data[i].start)
                      THEN [acc EXCEPT !.positive_score = @ + score]
                      ELSE [acc EXCEPT !.negative_score = @ + score],
                      LAMBDA next :
                     RawFirstLoop(self, text_lower, words_data, i + 1, next))))

RawFirstScores ==
    LET text_lower == Lower(call.text)
        phrases == LexicalScores(analyzer, call.text).used_phrase_ranges
    IN  RawFirstLoop(analyzer, text_lower, WordMatches(text_lower), 1,
                     [positive_score |-> 0, negative_score |-> 0,
                      used_phrase_ranges |-> phrases])

\* C18: the word-level scorer uses a token's raw form if it is in either
\* polarity table and only otherwise its stem, for custom-merged tables too:
\* a token whose raw form is in the negative table counts as negative with
\* its raw weight even if its stem is in the positive table, and the other
\* way round; each token counts on one side only.
C18_RawFormBeforeStem ==
    (/\ call.op = "analyze_tagalog_sentiment"
     /\ "positive_score" \in DOMAIN ret
     /\ LexicalScores(analyzer, call.text).used_phrase_ranges = <<>>) =>
        /\ ret.positive_score = Round2(RawFirstScores.positive_score)
        /\ ret.negative_score = Round2(RawFirstScores.negative_score)

\* C18's failing case: 'pagmaganda' is in the negative table with weight
\* 1.2 and is scored as positive with the weight 1.0 of its stem
C18_StemOverridesRawForm ==
    /\ call.op = "analyze_tagalog_sentiment"
    /\ custom_lexicon = NegativeOverPositiveStem
    /\ call.text = "pagmaganda"
    /\ analyzer.tagalog_negative["pagmaganda"] = -1200
    /\ "pagmaganda" \notin DOMAIN analyzer.tagalog_positive
    /\ ret.positive_score = 1000
    /\ ret.negative_score = 0


\* the scorer analyze_sentiment handed the text to
PathTaken == ret.calls[2]

\* C19: for a text that is not empty after normalisation analyze_sentiment
\* produces its result through exactly one of the three paths, and whenever
\* the language signal is not reliable ('unknown' included) that path is
\* analyze_mixed_sentiment.
C19_UnreliableSignalIsBlended ==
    (call.op = "analyze_sentiment" /\ ret.calls # <<>>) =>
        /\ PathTaken \in {"analyze_english_sentiment", "analyze_tagalog_sentiment",
                          "analyze_mixed_sentiment"}
        /\ Cardinality({k \in 2..Len(ret.calls) : ret.calls[k] = PathTaken}) = 1
        /\ ~ret.result.language.is_reliable
              => PathTaken = "analyze_mixed_sentiment"

\* C19's failing case: langid gives 'tl' with confidence 0.5, the signal is
\* not reliable, and the lexical scorer alone produced the result
C19_UnreliableTagalogIsLexicalOnly ==
    /\ call.op = "analyze_sentiment"
    /\ call.text = "maganda"
    /\ call.lang_outcome = LangReturned("tl", 500)
    /\ ~ret.result.language.is_reliable
    /\ ret.calls = <<"langid.classify", "analyze_tagalog_sentiment">>
    /\ ret.result.method = "tagalog_lexicon_enhanced"

=============================================================================
